---- MODULE Spec2Model ----
(***************************************************************************)
(* Library smart-checkout: the request handlers of library/views.py over   *)
(* the tables of library/models.py.                                        *)
(*                                                                         *)
(* The views open no transaction and take no row lock, so every ORM call   *)
(* (get_object_or_404, objects.create, save, count) is one database        *)
(* statement that commits on its own (Django's autocommit).  A request is  *)
(* therefore a sequence of steps, one per statement, and the steps of two  *)
(* requests interleave.  save() writes the whole row from the handler's    *)
(* in-memory copy.                                                         *)
(*                                                                         *)
(* Time is counted in ticks, TicksPerDay ticks to a day, so that           *)
(* timedelta.days (whole days) differs from the elapsed time.              *)
(***************************************************************************)
EXTENDS Integers, Sequences, FiniteSets, TLC

\* ---------------------------------------------------------------- bounds
TicksPerDay == 2
MaxTicks == 2
MaxRequests == 2
MaxSeqRequests == 2

\* ------------------------------------------------------ program constants
MAX_ACTIVE_RESERVATIONS_PER_PATRON == 10
LOAN_DAYS == 14
FINE_PER_DAY == 1
TOP_N == 20

\* User.ROLE_*
ROLE_PATRON == "PATRON"
ROLE_STAFF == "STAFF"
ROLE_ADMIN == "ADMIN"
ROLE_CHOICES == {ROLE_PATRON, ROLE_STAFF, ROLE_ADMIN}

\* Resource.STATUS_*
STATUS_AVAILABLE == "AVAILABLE"
STATUS_CHECKED_OUT == "CHECKED_OUT"
STATUS_RESERVED == "RESERVED"
STATUS_LOST == "LOST"

\* Checkout.STATUS_*
STATUS_ACTIVE == "ACTIVE"
STATUS_RETURNED == "RETURNED"

\* Reservation.STATUS_*
STATUS_PENDING == "PENDING"
STATUS_NOTIFIED == "NOTIFIED"
STATUS_CANCELLED == "CANCELLED"
STATUS_EXPIRED == "EXPIRED"

\* Notification.TYPE_*
TYPE_OVERDUE == "OVERDUE"
TYPE_RESERVATION_AVAILABLE == "RES_AVAIL"
TYPE_NEW_RESOURCE == "NEW_RESOURCE"
TYPE_EVENT == "EVENT"

\* Report.TYPE_*
TYPE_POPULAR_RESOURCES == "POPULAR_RESOURCES"

\* ------------------------------------------------------------ identifiers
UserIds == {"p1", "p2", "s1", "a1"}
Anonymous == "anon"
Actors == UserIds \cup {Anonymous}
NoSuchUser == "u0"

ResourceIds == {"r1", "r2"}
NoSuchResource == "r0"

Slots == {"a", "b"}

VARIABLES
    users,          \* User table: id -> [role, is_active]
    resources,      \* Resource table: id -> status
    checkouts,      \* Checkout table: row id (1..) -> row
    returns,        \* Return table
    reservations,   \* Reservation table
    notifications,  \* Notification table
    reports,        \* Report table
    now,            \* timezone.now(), in ticks
    slots,          \* the requests in flight: handler, position, local copies
    nreq,           \* requests received so far
    pre             \* the tables as they were when the running request arrived
                    \* (kept only when requests run one at a time)

vars == <<users, resources, checkouts, returns, reservations, notifications,
          reports, now, slots, nreq, pre>>

tables == <<users, resources, checkouts, returns, reservations, notifications, reports>>

db == [users |-> users, resources |-> resources, checkouts |-> checkouts,
       returns |-> returns, reservations |-> reservations,
       notifications |-> notifications, reports |-> reports]

\* ------------------------------------------------------------- the tables
NoUser == [role |-> "NONE", is_active |-> FALSE]

NoCheckout == [patron |-> "NONE", resource |-> "NONE", checkout_date |-> 0,
               due_date |-> 0, status |-> "NONE"]

Days(n) == n * TicksPerDay

Now0 == Days(LOAN_DAYS + 7)

\* Checkout(patron, resource, due_date): checkout_date and status take their defaults
Checkout(patron, resource, date, due_date) ==
    [patron |-> patron, resource |-> resource, checkout_date |-> date,
     due_date |-> due_date, status |-> STATUS_ACTIVE]

\* Return(checkout, fine_amount): returned_at takes its default
Return(checkout, fine_amount) ==
    [checkout |-> checkout, returned_at |-> now, fine_amount |-> fine_amount]

\* Reservation(patron, resource), had the default status been NOTIFIED.
Reservation_notified(patron, resource) ==
    [patron |-> patron, resource |-> resource, status |-> STATUS_NOTIFIED]

\* Reservation(patron, resource): status takes its default
Reservation(patron, resource) ==
    [patron |-> patron, resource |-> resource, status |-> STATUS_PENDING]

Notification(user, ntype) == [user |-> user, notification_type |-> ntype]

Report(report_type, data) == [report_type |-> report_type, data |-> data]

\* User.is_patron / is_staff_user / is_admin_user
is_patron(role) == role = ROLE_PATRON

is_staff_user(role) == role = ROLE_STAFF

is_admin_user(role) == role = ROLE_ADMIN

\* request.user.is_authenticated: the session's user row, if it is still active
is_authenticated(actor) == actor \in UserIds /\ users[actor].is_active

\* views.py imports timezone and Count, never timedelta
timedelta_defined == FALSE

\* calculate_due_date() as it would run with timedelta imported.
calculate_due_date_imported == [exc |-> "none", value |-> now + Days(LOAN_DAYS)]

\* calculate_due_date(): the name timedelta is looked up when the function runs
calculate_due_date ==
    IF timedelta_defined
    THEN [exc |-> "none", value |-> now + Days(LOAN_DAYS)]
    ELSE [exc |-> "NameError", value |-> 0]

\* Checkout.is_overdue()
is_overdue(checkout) == checkout.status = STATUS_ACTIVE /\ now > checkout.due_date

Max(a, b) == IF a >= b THEN a ELSE b

\* timedelta.days, had it counted a started day as a day.
timedelta_days_started(ticks) == (ticks + TicksPerDay - 1) \div TicksPerDay

\* timedelta.days of a difference of two datetimes: floor of the day count
timedelta_days(ticks) ==
    IF ticks >= 0 THEN ticks \div TicksPerDay
    ELSE -((-ticks + TicksPerDay - 1) \div TicksPerDay)

\* calculate_overdue_fine(checkout). Its two readings of timezone.now() and the
\* one that stamps Return.returned_at fall in the same tick.
calculate_overdue_fine(checkout) ==
    IF ~is_overdue(checkout) THEN 0
    ELSE Max(0, timedelta_days(now - checkout.due_date)) * FINE_PER_DAY

\* Reservation.objects.filter(patron=patron, status=PENDING).count()
active_res_count(patron) ==
    Cardinality({i \in DOMAIN reservations :
        reservations[i].patron = patron /\ reservations[i].status = STATUS_PENDING})

\* Count("checkouts"), had it counted the loans in progress only.
checkout_count_active(r) ==
    Cardinality({i \in DOMAIN checkouts :
        checkouts[i].resource = r /\ checkouts[i].status = STATUS_ACTIVE})

\* Count("checkouts") of a resource: its Checkout rows, whatever their status
checkout_count(r) ==
    Cardinality({i \in DOMAIN checkouts : checkouts[i].resource = r})

\* Return rows of a checkout (Return.checkout is a OneToOneField: unique)
return_records(cid) == {i \in DOMAIN returns : returns[i].checkout = cid}

\* ------------------------------------------------------------ the requests
\* A request in flight: the view (op), its position (pc), the URL arguments and
\* the handler's local variables.
Idle ==
    [pc |-> "idle", op |-> "none", actor |-> Anonymous,
     pk |-> NoSuchResource, checkout_id |-> 0, user_id |-> NoSuchUser,
     role |-> "NONE",              \* request.user.role, as loaded for this request
     status |-> "NONE",            \* resource.status of the handler's copy
     checkout |-> NoCheckout,      \* the handler's copy of the Checkout row
     user |-> NoUser,              \* the handler's copy of the target User row
     count |-> 0,                  \* active_res_count
     fine |-> 0,
     data |-> <<>>,
     outcome |-> "none", exc |-> "none"]

Ops == {"checkout_resource", "return_resource", "reserve_resource",
        "staff_process_return", "admin_promote_to_staff",
        "admin_deactivate_staff", "generate_popular_resources_report"}

Running(r) == r.pc \notin {"idle", "done"}

\* The response ends the request.
Respond(r, outcome) == [r EXCEPT !.pc = "done", !.outcome = outcome]

Raise(r, exc) == [r EXCEPT !.pc = "done", !.outcome = "error", !.exc = exc]

Goto(r, pc) == [r EXCEPT !.pc = pc]

\* @login_required
login_required(actor) == is_authenticated(actor)

\* staff_required, had it let admins in as well.
staff_or_admin_required(actor) ==
    /\ is_authenticated(actor)
    /\ (is_staff_user(users[actor].role) \/ is_admin_user(users[actor].role))

\* @staff_required
staff_required(actor) == is_authenticated(actor) /\ is_staff_user(users[actor].role)

\* @admin_required
admin_required(actor) == is_authenticated(actor) /\ is_admin_user(users[actor].role)

\* The decorator each view is wrapped in.
Decorator(op, actor) ==
    CASE op \in {"staff_process_return", "generate_popular_resources_report"} ->
            staff_required(actor)
      [] op \in {"admin_promote_to_staff", "admin_deactivate_staff"} ->
            admin_required(actor)
      [] OTHER -> login_required(actor)

\* ------------------------------------------------------------------- Init
SeedAges == {Days(LOAN_DAYS) - 1, Days(LOAN_DAYS + 5)}

SeedPending == {0, MAX_ACTIVE_RESERVATIONS_PER_PATRON - 1}

\* A loan made `age` ticks ago, as checkout_resource is meant to record it.
SeedLoan(patron, resource, age) ==
    Checkout(patron, resource, Now0 - age, Now0 - age + Days(LOAN_DAYS))

SeedLoans == {<<>>} \cup {<<SeedLoan("p1", "r1", a)>> : a \in SeedAges}

SeedReservations(k) ==
    IF k = 0 THEN <<>>
    ELSE [i \in 1..k |-> Reservation("p1", "r1")]
         \o <<[patron |-> "p1", resource |-> "r2", status |-> STATUS_EXPIRED]>>

\* The databases the requests start from: no loan or one loan of r1, with or
\* without reservations by p1; or both resources on loan.
Seeds ==
    {[loans |-> l, reservations |-> SeedReservations(k)] :
        l \in SeedLoans, k \in SeedPending}
    \cup
    {[loans |-> <<SeedLoan("p1", "r1", Days(LOAN_DAYS + 5)),
                  SeedLoan("p2", "r2", Days(1))>>,
      reservations |-> <<>>]}

\* The status a resource's last checkout or reservation left it in.
SeedStatus(seed, r) ==
    IF \A i \in DOMAIN seed.loans : seed.loans[i].resource # r
    THEN STATUS_AVAILABLE
    ELSE IF \E i \in DOMAIN seed.reservations :
                /\ seed.reservations[i].resource = r
                /\ seed.reservations[i].status = STATUS_PENDING
    THEN STATUS_RESERVED
    ELSE STATUS_CHECKED_OUT

\* The database at the start: four users, two resources, the loans in progress
\* and the reservations placed.
Init ==
    /\ users = [u \in UserIds |->
                  [role |-> CASE u \in {"p1", "p2"} -> ROLE_PATRON
                              [] u = "s1" -> ROLE_STAFF
                              [] OTHER -> ROLE_ADMIN,
                   is_active |-> TRUE]]
    /\ \E seed \in Seeds :
          /\ checkouts = seed.loans
          /\ reservations = seed.reservations
          /\ resources = [r \in ResourceIds |-> SeedStatus(seed, r)]
    /\ returns = <<>>
    /\ notifications = <<>>
    /\ reports = <<>>
    /\ now = Now0
    /\ slots = [s \in Slots |-> Idle]
    /\ nreq = 0
    /\ pre = db

\* ---------------------------------------------------------------- steps
\* Each view is a function from the request's position and the tables to the
\* tables and the request's position after its next database statement.
Step(d, r) == [db |-> d, slot |-> r]

\* create_notification(user, ntype, message)
create_notification(d, user, ntype) ==
    [d EXCEPT !.notifications = Append(@, Notification(user, ntype))]

\* checkout_resource(request, pk). calculate_due_date() runs before anything is
\* written, so the statements after it run only if it returns.
checkout_resource_step(r) ==
    CASE r.pc = "get" ->
            IF ~is_patron(r.role) THEN Step(db, Respond(r, "rejected"))
            ELSE IF r.pk \notin DOMAIN resources THEN Step(db, Respond(r, "not_found"))
            ELSE LET resource == [r EXCEPT !.status = resources[r.pk]] IN
                 IF resource.status # STATUS_AVAILABLE
                 THEN Step(db, Respond(resource, "rejected"))
                 ELSE Step(db, Goto(resource, "create"))
      [] r.pc = "create" ->
            LET due_date == calculate_due_date IN
            IF due_date.exc # "none" THEN Step(db, Raise(r, due_date.exc))
            ELSE Step([db EXCEPT !.checkouts =
                          Append(@, Checkout(r.actor, r.pk, now, due_date.value))],
                      Goto(r, "save_resource"))
      [] r.pc = "save_resource" ->
            Step([db EXCEPT !.resources[r.pk] = STATUS_CHECKED_OUT], Goto(r, "notify"))
      [] OTHER ->
            Step(create_notification(db, r.actor, TYPE_NEW_RESOURCE), Respond(r, "ok"))

\* The shared part of the two return views, had checkout.save() been left out.
process_return_without_checkout_save_step(r, notified) ==
    CASE r.pc = "create" ->
            LET fine == calculate_overdue_fine(r.checkout) IN
            IF return_records(r.checkout_id) # {}
            THEN Step(db, Raise(r, "IntegrityError"))
            ELSE Step([db EXCEPT !.returns = Append(@, Return(r.checkout_id, fine))],
                      Goto([r EXCEPT !.fine = fine], "save_checkout"))
      [] r.pc = "save_checkout" ->
            LET checkout == [r.checkout EXCEPT !.status = STATUS_RETURNED] IN
            Step(db, Goto([r EXCEPT !.checkout = checkout], "save_resource"))
      [] r.pc = "save_resource" ->
            Step([db EXCEPT !.resources[r.checkout.resource] = STATUS_AVAILABLE],
                 Goto(r, "notify"))
      [] OTHER ->
            Step(create_notification(db, notified,
                    IF r.fine > 0 THEN TYPE_OVERDUE ELSE TYPE_EVENT),
                 Respond(r, "ok"))

\* The part return_resource and staff_process_return share, after the Checkout
\* row is read and found ACTIVE: fine and Return row (the insert fails on the
\* unique checkout_id when the checkout has a Return), checkout.save(),
\* checkout.resource loaded and saved AVAILABLE, notification.
process_return_step(r, notified) ==
    CASE r.pc = "create" ->
            LET fine == calculate_overdue_fine(r.checkout) IN
            IF return_records(r.checkout_id) # {}
            THEN Step(db, Raise(r, "IntegrityError"))
            ELSE Step([db EXCEPT !.returns = Append(@, Return(r.checkout_id, fine))],
                      Goto([r EXCEPT !.fine = fine], "save_checkout"))
      [] r.pc = "save_checkout" ->
            LET checkout == [r.checkout EXCEPT !.status = STATUS_RETURNED] IN
            Step([db EXCEPT !.checkouts[r.checkout_id] = checkout],
                 Goto([r EXCEPT !.checkout = checkout], "save_resource"))
      [] r.pc = "save_resource" ->
            Step([db EXCEPT !.resources[r.checkout.resource] = STATUS_AVAILABLE],
                 Goto(r, "notify"))
      [] OTHER ->
            Step(create_notification(db, notified,
                    IF r.fine > 0 THEN TYPE_OVERDUE ELSE TYPE_EVENT),
                 Respond(r, "ok"))

\* get_object_or_404(Checkout, id=checkout_id, patron=patron)
get_own_checkout(checkout_id, patron) ==
    IF checkout_id \in DOMAIN checkouts /\ checkouts[checkout_id].patron = patron
    THEN checkouts[checkout_id] ELSE NoCheckout

\* get_object_or_404(Checkout, id=checkout_id)
get_checkout(checkout_id) ==
    IF checkout_id \in DOMAIN checkouts THEN checkouts[checkout_id] ELSE NoCheckout

\* The return views, had they not checked the status.
check_exists(r, checkout) ==
    IF checkout = NoCheckout THEN Step(db, Respond(r, "not_found"))
    ELSE Step(db, Goto([r EXCEPT !.checkout = checkout], "create"))

\* The status check of both return views.
check_active(r, checkout) ==
    IF checkout = NoCheckout THEN Step(db, Respond(r, "not_found"))
    ELSE IF checkout.status # STATUS_ACTIVE
    THEN Step(db, Respond([r EXCEPT !.checkout = checkout], "rejected"))
    ELSE Step(db, Goto([r EXCEPT !.checkout = checkout], "create"))

\* return_resource(request, checkout_id)
return_resource_step(r) ==
    IF r.pc = "get" THEN check_active(r, get_own_checkout(r.checkout_id, r.actor))
    ELSE process_return_step(r, r.actor)

\* staff_process_return, had it notified request.user as return_resource does.
staff_process_return_notifying_staff_step(r) ==
    IF r.pc = "get" THEN check_active(r, get_checkout(r.checkout_id))
    ELSE process_return_step(r, r.actor)

\* staff_process_return(request, checkout_id)
staff_process_return_step(r) ==
    IF r.pc = "get" THEN check_active(r, get_checkout(r.checkout_id))
    ELSE process_return_step(r, r.checkout.patron)

\* The limit check, had it been written with > for >=.
limit_exceeded(count) == count > MAX_ACTIVE_RESERVATIONS_PER_PATRON

\* The availability check, had it been left out.
resource_never_available(status) == FALSE

\* reserve_resource: active_res_count >= MAX_ACTIVE_RESERVATIONS_PER_PATRON
limit_reached(count) == count >= MAX_ACTIVE_RESERVATIONS_PER_PATRON

\* The availability check, had it compared with the wrong status.
resource_checked_out(status) == status = STATUS_CHECKED_OUT

\* reserve_resource: resource.status == Resource.STATUS_AVAILABLE
resource_available(status) == status = STATUS_AVAILABLE

\* reserve_resource(request, pk)
reserve_resource_step(r) ==
    CASE r.pc = "get" ->
            IF r.pk \notin DOMAIN resources THEN Step(db, Respond(r, "not_found"))
            ELSE Step(db, Goto([r EXCEPT !.status = resources[r.pk]], "count"))
      [] r.pc = "count" ->
            LET counted == [r EXCEPT !.count = active_res_count(r.actor)] IN
            IF limit_reached(counted.count)
            THEN Step(db, Respond(counted, "rejected"))
            ELSE IF resource_available(r.status)
            THEN Step(db, Respond(counted, "advisory"))
            ELSE Step(db, Goto(counted, "create"))
      [] r.pc = "create" ->
            Step([db EXCEPT !.reservations = Append(@, Reservation(r.actor, r.pk))],
                 Goto(r, "save_resource"))
      [] r.pc = "save_resource" ->
            Step([db EXCEPT !.resources[r.pk] = STATUS_RESERVED], Goto(r, "notify"))
      [] OTHER ->
            Step(create_notification(db, r.actor, TYPE_RESERVATION_AVAILABLE),
                 Respond(r, "ok"))

\* admin_promote_to_staff, had it promoted patrons only.
admin_promote_patron_to_staff_step(r) ==
    IF r.pc = "get"
    THEN IF r.user_id \notin DOMAIN users THEN Step(db, Respond(r, "not_found"))
         ELSE Step(db, Goto([r EXCEPT !.user = users[r.user_id]], "save"))
    ELSE IF r.user.role # ROLE_PATRON THEN Step(db, Respond(r, "ok"))
    ELSE Step([db EXCEPT !.users[r.user_id] = [r.user EXCEPT !.role = ROLE_STAFF]],
              Respond(r, "ok"))

\* admin_promote_to_staff(request, user_id)
admin_promote_to_staff_step(r) ==
    IF r.pc = "get"
    THEN IF r.user_id \notin DOMAIN users THEN Step(db, Respond(r, "not_found"))
         ELSE Step(db, Goto([r EXCEPT !.user = users[r.user_id]], "save"))
    ELSE Step([db EXCEPT !.users[r.user_id] = [r.user EXCEPT !.role = ROLE_STAFF]],
              Respond(r, "ok"))

\* The lookup of admin_deactivate_staff, had it not filtered on the role.
get_user(user_id) == IF user_id \in DOMAIN users THEN users[user_id] ELSE NoUser

\* get_object_or_404(User, id=user_id, role=User.ROLE_STAFF)
get_staff_user(user_id) ==
    IF user_id \in DOMAIN users /\ users[user_id].role = ROLE_STAFF
    THEN users[user_id] ELSE NoUser

\* admin_deactivate_staff(request, user_id)
admin_deactivate_staff_step(r) ==
    IF r.pc = "get"
    THEN LET user == get_staff_user(r.user_id) IN
         IF user = NoUser THEN Step(db, Respond(r, "not_found"))
         ELSE Step(db, Goto([r EXCEPT !.user = user], "save"))
    ELSE Step([db EXCEPT !.users[r.user_id] = [r.user EXCEPT !.is_active = FALSE]],
              Respond(r, "ok"))

Min(a, b) == IF a <= b THEN a ELSE b

\* Resource.objects.annotate(checkout_count=Count("checkouts"))
\*     .order_by("-checkout_count")[:20]: the order of equal counts is the
\* database's choice.
popular_resources ==
    LET n == Cardinality(ResourceIds)
        ranked == {f \in [1..n -> ResourceIds] :
                     /\ \A i, j \in 1..n : i # j => f[i] # f[j]
                     /\ \A i, j \in 1..n :
                           i < j => checkout_count(f[i]) >= checkout_count(f[j])}
    IN {[i \in 1..Min(TOP_N, n) |->
            [title |-> f[i], checkout_count |-> checkout_count(f[i])]] : f \in ranked}

\* generate_popular_resources_report(request)
generate_popular_resources_report_step(r, data) ==
    IF r.pc = "query" THEN Step(db, Goto([r EXCEPT !.data = data], "create"))
    ELSE Step([db EXCEPT !.reports = Append(@, Report(TYPE_POPULAR_RESOURCES, r.data))],
              Respond(r, "ok"))

\* -------------------------------------------------------------- actions
\* The requests a client can send (urls.py), with the ids of the rows that exist.
Requests ==
    {[op |-> op, pk |-> pk, checkout_id |-> 0, user_id |-> NoSuchUser] :
        op \in {"checkout_resource", "reserve_resource"},
        pk \in ResourceIds}
    \cup
    {[op |-> op, pk |-> NoSuchResource, checkout_id |-> c, user_id |-> NoSuchUser] :
        op \in {"return_resource", "staff_process_return"},
        c \in DOMAIN checkouts}
    \cup
    {[op |-> op, pk |-> NoSuchResource, checkout_id |-> 0, user_id |-> u] :
        op \in {"admin_promote_to_staff", "admin_deactivate_staff"},
        u \in UserIds}
    \cup
    {[op |-> "generate_popular_resources_report", pk |-> NoSuchResource,
      checkout_id |-> 0, user_id |-> NoSuchUser]}

FirstPc(op) == IF op = "generate_popular_resources_report" THEN "query" ELSE "get"

\* The request reaches its view: the session's user is loaded and the view's
\* decorator either redirects it to the login page or calls the view with the
\* URL's arguments.
Arrive(q, actor) ==
    LET r == [Idle EXCEPT !.op = q.op, !.actor = actor,
                          !.role = IF actor \in UserIds THEN users[actor].role
                                   ELSE "NONE"]
    IN IF Decorator(q.op, actor)
       THEN Goto([r EXCEPT !.pk = q.pk, !.checkout_id = q.checkout_id,
                           !.user_id = q.user_id], FirstPc(q.op))
       ELSE Respond(r, "denied")

\* No response is waiting to be sent.
Quiet == \A s \in Slots : slots[s].pc # "done"

Request(s, q, actor, snapshot) ==
    /\ Quiet
    /\ slots[s].pc = "idle"
    /\ slots' = [slots EXCEPT ![s] = Arrive(q, actor)]
    /\ nreq' = nreq + 1
    /\ pre' = IF snapshot THEN db ELSE pre
    /\ UNCHANGED <<tables, now>>

\* One database statement of the request in slot s.
Apply(s, st) ==
    /\ users' = st.db.users
    /\ resources' = st.db.resources
    /\ checkouts' = st.db.checkouts
    /\ returns' = st.db.returns
    /\ reservations' = st.db.reservations
    /\ notifications' = st.db.notifications
    /\ reports' = st.db.reports
    /\ slots' = [slots EXCEPT ![s] = st.slot]
    /\ UNCHANGED <<now, nreq, pre>>

At(s, op) == Quiet /\ slots[s].op = op /\ Running(slots[s])

checkout_resource(s) ==
    At(s, "checkout_resource") /\ Apply(s, checkout_resource_step(slots[s]))

return_resource(s) ==
    At(s, "return_resource") /\ Apply(s, return_resource_step(slots[s]))

reserve_resource(s) ==
    At(s, "reserve_resource") /\ Apply(s, reserve_resource_step(slots[s]))

staff_process_return(s) ==
    At(s, "staff_process_return") /\ Apply(s, staff_process_return_step(slots[s]))

admin_promote_to_staff(s) ==
    At(s, "admin_promote_to_staff") /\ Apply(s, admin_promote_to_staff_step(slots[s]))

admin_deactivate_staff(s) ==
    At(s, "admin_deactivate_staff") /\ Apply(s, admin_deactivate_staff_step(slots[s]))

generate_popular_resources_report(s) ==
    /\ At(s, "generate_popular_resources_report")
    /\ \E data \in popular_resources :
          Apply(s, generate_popular_resources_report_step(slots[s], data))

\* The response is sent and the request is over.
Complete(s, snapshot) ==
    /\ slots[s].pc = "done"
    /\ slots' = [slots EXCEPT ![s] = Idle]
    /\ pre' = IF snapshot THEN db ELSE pre
    /\ UNCHANGED <<tables, now, nreq>>

\* Time passes between requests.
Tick ==
    /\ \A s \in Slots : slots[s].pc = "idle"
    /\ now < Now0 + MaxTicks
    /\ now' = now + 1
    /\ UNCHANGED <<tables, slots, nreq, pre>>

\* The slot a new request takes.
FreeSlot == IF slots["a"].pc = "idle" THEN "a" ELSE "b"

\* Requests are served concurrently, their statements interleaving, within one
\* tick of the clock.
Next ==
    \/ \E q \in Requests, actor \in Actors :
          nreq < MaxRequests /\ Request(FreeSlot, q, actor, FALSE)
    \/ \E s \in Slots : checkout_resource(s)
    \/ \E s \in Slots : return_resource(s)
    \/ \E s \in Slots : reserve_resource(s)
    \/ \E s \in Slots : staff_process_return(s)
    \/ \E s \in Slots : admin_promote_to_staff(s)
    \/ \E s \in Slots : admin_deactivate_staff(s)
    \/ \E s \in Slots : generate_popular_resources_report(s)
    \/ \E s \in Slots : Complete(s, FALSE)

Spec == Init /\ [][Next]_vars

\* Requests are served one at a time, each to its response before the next.
SeqNext ==
    \/ \E q \in Requests, actor \in Actors :
          nreq < MaxSeqRequests /\ Request("a", q, actor, TRUE)
    \/ checkout_resource("a")
    \/ return_resource("a")
    \/ reserve_resource("a")
    \/ staff_process_return("a")
    \/ admin_promote_to_staff("a")
    \/ admin_deactivate_staff("a")
    \/ generate_popular_resources_report("a")
    \/ Complete("a", TRUE)
    \/ Tick

SeqSpec == Init /\ [][SeqNext]_vars

\* ----------------------------------------------------------------- claims
\* The request served one at a time that has just been answered (SeqSpec).
Done == slots["a"]

Answered == Done.pc = "done"

\* The request reached the view's body (its decorator let it in).
Admitted == Answered /\ Done.outcome # "denied"

ActiveCheckouts(r) ==
    {i \in DOMAIN checkouts :
        checkouts[i].resource = r /\ checkouts[i].status = STATUS_ACTIVE}

\* C1: for every resource at most one Checkout is ACTIVE, in every state that
\* concurrent requests can reach, two interleaved checkout requests on the
\* same AVAILABLE resource included.
C1_AtMostOneActiveCheckout ==
    \A r \in ResourceIds : Cardinality(ActiveCheckouts(r)) <= 1

\* Two patrons' checkout requests on one resource have both read it AVAILABLE;
\* one has been answered, the other is about to create its Checkout.
C1_Witness ==
    \E s, t \in Slots :
        /\ s # t
        /\ slots[s].op = "checkout_resource" /\ slots[t].op = "checkout_resource"
        /\ slots[s].pk = slots[t].pk
        /\ slots[s].actor # slots[t].actor
        /\ slots[s].status = STATUS_AVAILABLE /\ slots[t].status = STATUS_AVAILABLE
        /\ slots[s].pc = "done" /\ slots[t].pc = "create"
        /\ Cardinality(ActiveCheckouts(slots[s].pk)) = 0

\* C2: a checkout request by a PATRON on an AVAILABLE resource is answered with
\* success, the resource CHECKED_OUT and exactly one new Checkout, ACTIVE, for
\* that patron and resource, due 14 days after its checkout date.
C2_CheckoutSucceeds ==
    (/\ Admitted
     /\ Done.op = "checkout_resource"
     /\ pre.users[Done.actor].role = ROLE_PATRON
     /\ pre.resources[Done.pk] = STATUS_AVAILABLE)
    => /\ Done.outcome = "ok"
       /\ resources[Done.pk] = STATUS_CHECKED_OUT
       /\ Len(checkouts) = Len(pre.checkouts) + 1
       /\ SubSeq(checkouts, 1, Len(pre.checkouts)) = pre.checkouts
       /\ LET c == checkouts[Len(checkouts)] IN
            /\ c.patron = Done.actor
            /\ c.resource = Done.pk
            /\ c.status = STATUS_ACTIVE
            /\ c.due_date = c.checkout_date + Days(LOAN_DAYS)

ReturnOps == {"return_resource", "staff_process_return"}

StaffOps == {"staff_process_return", "generate_popular_resources_report"}

AdminOps == {"admin_promote_to_staff", "admin_deactivate_staff"}

PatronOps == {"checkout_resource", "return_resource", "reserve_resource"}

\* The actor was logged in with this role when the request arrived.
HadRole(actor, role) ==
    actor \in UserIds /\ pre.users[actor].is_active /\ pre.users[actor].role = role

PendingCount(table, patron) ==
    Cardinality({i \in DOMAIN table :
        table[i].patron = patron /\ table[i].status = STATUS_PENDING})

\* C3: a return of an ACTIVE checkout, by its patron or by staff, creates one
\* Return, sets the checkout RETURNED and the resource AVAILABLE; any other
\* return attempt is rejected and leaves the Return and Checkout tables as they
\* were; no Checkout ever has two Return records.
C3_ReturnExactlyOnce ==
    /\ \A c \in DOMAIN checkouts : Cardinality(return_records(c)) <= 1
    /\ (Admitted /\ Done.op \in ReturnOps) =>
         LET cid == Done.checkout_id
             was == pre.checkouts[cid]
             allowed == Done.op = "staff_process_return" \/ was.patron = Done.actor
         IN IF was.status = STATUS_ACTIVE /\ allowed
            THEN /\ Done.outcome = "ok"
                 /\ Len(returns) = Len(pre.returns) + 1
                 /\ SubSeq(returns, 1, Len(pre.returns)) = pre.returns
                 /\ returns[Len(returns)].checkout = cid
                 /\ checkouts[cid].status = STATUS_RETURNED
                 /\ resources[was.resource] = STATUS_AVAILABLE
            ELSE /\ Done.outcome \in {"rejected", "not_found"}
                 /\ returns = pre.returns
                 /\ checkouts = pre.checkouts

\* A second return attempt on a returned checkout has been rejected.
C3_Witness ==
    /\ Answered
    /\ Done.op \in ReturnOps
    /\ Done.outcome = "rejected"
    /\ Cardinality(return_records(Done.checkout_id)) = 1
    /\ checkouts[Done.checkout_id].status = STATUS_RETURNED

\* C4: the fine of a Return is 0 when it was made at or before the due date and
\* otherwise 1.00 per whole day elapsed since the due date: 0 under one day,
\* 5 at five days, 6 at twenty days after a checkout due after fourteen; it is
\* never negative.
C4_FineIsWholeDaysOverdue ==
    \A i \in DOMAIN returns :
        LET fine == returns[i].fine_amount
            c == checkouts[returns[i].checkout]
            late == returns[i].returned_at - c.due_date
        IN /\ fine >= 0
           /\ late <= 0 => fine = 0
           /\ late > 0 => \E d \in 0..late :
                             /\ Days(d) <= late /\ late < Days(d + 1)
                             /\ fine = d
           /\ (late > 0 /\ late < Days(1)) => fine = 0
           /\ late = Days(5) => fine = 5
           /\ (/\ returns[i].returned_at - c.checkout_date = Days(20)
               /\ c.due_date = c.checkout_date + Days(14)) => fine = 6

\* A checkout due after 14 days has been returned 20 days after it was made.
C4_Witness ==
    \E i \in DOMAIN returns :
        LET c == checkouts[returns[i].checkout] IN
        /\ returns[i].returned_at - c.checkout_date = Days(20)
        /\ c.due_date = c.checkout_date + Days(14)
        /\ returns[i].fine_amount = 6

\* C5: with requests served one at a time no user ever has more than 10
\* PENDING reservations; a reserve request by a user with 10 is rejected and
\* changes nothing; with 9, on a resource that is not AVAILABLE, it succeeds
\* and creates the 10th.
C5_ReservationCap ==
    /\ \A u \in UserIds : active_res_count(u) <= 10
    /\ (Admitted /\ Done.op = "reserve_resource") =>
         LET n == PendingCount(pre.reservations, Done.actor) IN
         /\ n = 10 => (Done.outcome = "rejected" /\ db = pre)
         /\ (n = 9 /\ pre.resources[Done.pk] # STATUS_AVAILABLE) =>
               /\ Done.outcome = "ok"
               /\ reservations =
                     Append(pre.reservations,
                            [patron |-> Done.actor, resource |-> Done.pk,
                             status |-> STATUS_PENDING])
               /\ active_res_count(Done.actor) = 10

\* A reserve request by a user with 10 PENDING reservations has been rejected.
C5_Witness ==
    /\ Answered
    /\ Done.op = "reserve_resource"
    /\ Done.outcome = "rejected"
    /\ PendingCount(pre.reservations, Done.actor) = 10
    /\ active_res_count(Done.actor) = 10

\* The resource a request works on.
ResourceOf(r) ==
    CASE r.op \in {"checkout_resource", "reserve_resource"} -> r.pk
      [] r.op \in ReturnOps /\ r.checkout_id \in DOMAIN checkouts ->
            checkouts[r.checkout_id].resource
      [] OTHER -> NoSuchResource

\* The request has made the first of its writes and not yet the one that
\* brings Checkout, Return and Resource back in agreement.
MidWrite(r) == r.pc \in {"save_checkout", "save_resource"}

\* C6: every operation is all-or-nothing as seen by other requests: no request
\* executes a statement on a resource while another request is between its
\* writes on that resource (a Return present with its checkout still ACTIVE,
\* a checkout RETURNED with its resource not yet AVAILABLE).
C6_AllOrNothing ==
    [][\A s, t \in Slots :
          (/\ s # t
           /\ MidWrite(slots[t])
           /\ Running(slots[s])
           /\ ResourceOf(slots[s]) = ResourceOf(slots[t]))
          => slots'[s] = slots[s]]_vars

\* C7: checkout_resource, return_resource and reserve_resource change nothing
\* for a requester whose role is not PATRON.
C7_PatronOnly ==
    (/\ Done.pc # "idle"
     /\ Done.op \in PatronOps
     /\ ~HadRole(Done.actor, ROLE_PATRON))
    => db = pre

\* C8: the staff views change nothing unless the requester is logged in with
\* role STAFF, the admin views nothing unless with role ADMIN; any other
\* requester is turned away.
C8_RoleGates ==
    Done.pc # "idle" =>
        /\ (Done.op \in StaffOps /\ ~HadRole(Done.actor, ROLE_STAFF))
              => (db = pre /\ Done.outcome = "denied")
        /\ (Done.op \in AdminOps /\ ~HadRole(Done.actor, ROLE_ADMIN))
              => (db = pre /\ Done.outcome = "denied")

\* An admin's request for a staff view has been turned away.
C8_Witness ==
    /\ Answered
    /\ Done.op \in StaffOps
    /\ HadRole(Done.actor, ROLE_ADMIN)
    /\ Done.outcome = "denied"
    /\ db = pre

\* C9: a rejected request leaves every table as it was, and these requests are
\* rejected: checkout of a resource that is not AVAILABLE or by a non-patron,
\* return of a checkout that is not ACTIVE, self-service return of another
\* user's checkout, reserve at the cap of 10, deactivation of a user who is
\* not STAFF.
C9_RejectedUnchanged ==
    /\ (Answered /\ Done.outcome # "ok") => db = pre
    /\ Admitted =>
         /\ (/\ Done.op = "checkout_resource"
             /\ \/ pre.resources[Done.pk] # STATUS_AVAILABLE
                \/ ~HadRole(Done.actor, ROLE_PATRON))
               => Done.outcome = "rejected"
         /\ (/\ Done.op \in ReturnOps
             /\ pre.checkouts[Done.checkout_id].status # STATUS_ACTIVE
             /\ \/ Done.op = "staff_process_return"
                \/ pre.checkouts[Done.checkout_id].patron = Done.actor)
               => Done.outcome = "rejected"
         /\ (/\ Done.op = "return_resource"
             /\ pre.checkouts[Done.checkout_id].patron # Done.actor)
               => Done.outcome = "not_found"
         /\ (/\ Done.op = "reserve_resource"
             /\ PendingCount(pre.reservations, Done.actor) >= 10)
               => Done.outcome = "rejected"
         /\ (/\ Done.op = "admin_deactivate_staff"
             /\ pre.users[Done.user_id].role # ROLE_STAFF)
               => Done.outcome = "not_found"

\* A request to deactivate a user who is not STAFF has been rejected.
C9_Witness ==
    /\ Admitted
    /\ Done.op = "admin_deactivate_staff"
    /\ pre.users[Done.user_id].role # ROLE_STAFF
    /\ Done.outcome = "not_found"
    /\ db = pre

\* C10: a reserve request on an AVAILABLE resource creates no Reservation and
\* no Notification and leaves the resource AVAILABLE, whatever the number of
\* PENDING reservations of the requester.
C10_ReserveAvailableNoEffect ==
    (/\ Admitted
     /\ Done.op = "reserve_resource"
     /\ pre.resources[Done.pk] = STATUS_AVAILABLE)
    => /\ reservations = pre.reservations
       /\ notifications = pre.notifications
       /\ resources = pre.resources
       /\ resources[Done.pk] = STATUS_AVAILABLE
       /\ Done.outcome \in {"advisory", "rejected"}

\* A user with PENDING reservations has been told to check the resource out.
C10_Witness ==
    /\ Admitted
    /\ Done.op = "reserve_resource"
    /\ pre.resources[Done.pk] = STATUS_AVAILABLE
    /\ Done.outcome = "advisory"
    /\ PendingCount(pre.reservations, Done.actor) > 0
    /\ reservations = pre.reservations

\* The Notification rows of a user with a type.
NotificationsOf(table, user, ntype) ==
    {i \in DOMAIN table :
        table[i].user = user /\ table[i].notification_type = ntype}

\* C11: a successful return, by the patron or by staff, creates exactly one
\* Notification, for the checkout's patron, OVERDUE if and only if the fine
\* recorded is greater than 0 and EVENT otherwise; after a return 20 days after
\* the checkout the patron has exactly one OVERDUE notification and the
\* resource is AVAILABLE.
C11_OneNotificationPerReturn ==
    (Admitted /\ Done.op \in ReturnOps /\ Done.outcome = "ok") =>
        LET was == pre.checkouts[Done.checkout_id]
            ret == returns[Len(returns)]
            n == notifications[Len(notifications)]
        IN /\ Len(notifications) = Len(pre.notifications) + 1
           /\ SubSeq(notifications, 1, Len(pre.notifications)) = pre.notifications
           /\ ret.checkout = Done.checkout_id
           /\ n.user = was.patron
           /\ n.notification_type = TYPE_OVERDUE <=> ret.fine_amount > 0
           /\ n.notification_type = TYPE_EVENT <=> ret.fine_amount <= 0
           /\ (/\ ret.returned_at - was.checkout_date = Days(20)
               /\ was.due_date = was.checkout_date + Days(14)
               /\ NotificationsOf(pre.notifications, was.patron, TYPE_OVERDUE) = {})
              => /\ Cardinality(NotificationsOf(notifications, was.patron,
                                                TYPE_OVERDUE)) = 1
                 /\ resources[was.resource] = STATUS_AVAILABLE

\* Staff have processed a return 20 days after the checkout: the one OVERDUE
\* notification is the patron's, not the staff member's.
C11_Witness ==
    /\ Admitted
    /\ Done.op = "staff_process_return"
    /\ Done.outcome = "ok"
    /\ LET was == pre.checkouts[Done.checkout_id] IN
         /\ now - was.checkout_date = Days(20)
         /\ was.patron # Done.actor
         /\ Cardinality(NotificationsOf(notifications, was.patron, TYPE_OVERDUE)) = 1
         /\ NotificationsOf(notifications, Done.actor, TYPE_OVERDUE) = {}
         /\ resources[was.resource] = STATUS_AVAILABLE

\* C12: admin_promote_to_staff sets the target user's role to STAFF whatever
\* the role was (the acting admin's included), changes no other user and no
\* is_active flag, and applied to a user who is STAFF already leaves the User
\* rows as they are.
C12_PromoteIdempotent ==
    (Admitted /\ Done.op = "admin_promote_to_staff") =>
        LET target == Done.user_id IN
        /\ Done.outcome = "ok"
        /\ DOMAIN users = DOMAIN pre.users
        /\ users[target].role = ROLE_STAFF
        /\ \A u \in DOMAIN users :
              /\ users[u].is_active = pre.users[u].is_active
              /\ u # target => users[u] = pre.users[u]
        /\ pre.users[target].role = ROLE_STAFF => users = pre.users

\* A user who was a patron at the start has been promoted a second time.
C12_Witness ==
    /\ Admitted
    /\ Done.op = "admin_promote_to_staff"
    /\ Done.outcome = "ok"
    /\ Done.user_id \in {"p1", "p2"}
    /\ pre.users[Done.user_id].role = ROLE_STAFF
    /\ users = pre.users

\* The Checkout rows of a resource in a table, whatever their status.
CheckoutsOf(table, r) == {i \in DOMAIN table : table[i].resource = r}

C14_CheckoutLifecycle ==
    [][/\ \A i \in DOMAIN checkouts :
             /\ i \in DOMAIN checkouts'
             /\ checkouts[i].status = STATUS_RETURNED
                   => checkouts'[i].status = STATUS_RETURNED
             /\ checkouts'[i].status # checkouts[i].status
                   => /\ checkouts[i].status = STATUS_ACTIVE
                      /\ checkouts'[i].status = STATUS_RETURNED
       /\ \A i \in DOMAIN checkouts' \ DOMAIN checkouts :
             checkouts'[i].status = STATUS_ACTIVE
       /\ \A i \in DOMAIN checkouts' : checkouts'[i].status # STATUS_LOST
       /\ \A r \in DOMAIN resources' : resources'[r] # STATUS_LOST
       /\ slots'["a"].pc \in {"idle", "done"} =>
             \A i \in DOMAIN checkouts' :
                 checkouts'[i].status = STATUS_RETURNED
                    <=> \E j \in DOMAIN returns' : returns'[j].checkout = i
      ]_vars

\* A checkout returned by an earlier request is still RETURNED, with its one
\* Return record, after a later request on it or on its resource.
C14_Witness ==
    /\ Answered
    /\ \E i \in DOMAIN checkouts :
          /\ pre.checkouts[i].status = STATUS_RETURNED
          /\ checkouts[i].status = STATUS_RETURNED
          /\ Cardinality(return_records(i)) = 1
          /\ ResourceOf(Done) = checkouts[i].resource
          /\ \E j \in DOMAIN checkouts : checkouts[j].status = STATUS_ACTIVE

\* C15: once the requests have been answered, every resource whose status is
\* RESERVED or CHECKED_OUT has an ACTIVE checkout, also when a reserve request
\* and a return request on the resource interleave (reserve reads the
\* resource as not AVAILABLE, the return completes, reserve writes RESERVED).
C15_NoStrandedResource ==
    (\A s \in Slots : slots[s].pc = "idle") =>
        \A r \in ResourceIds :
            resources[r] \in {STATUS_RESERVED, STATUS_CHECKED_OUT}
                => ActiveCheckouts(r) # {}

\* In the tables d every resource has an ACTIVE checkout if and only if its
\* status is not AVAILABLE, and a resource with an ACTIVE checkout has one of
\* the statuses given.
StatusAgrees(d, onloan) ==
    \A r \in DOMAIN d.resources :
        LET active == {i \in DOMAIN d.checkouts :
                          /\ d.checkouts[i].resource = r
                          /\ d.checkouts[i].status = STATUS_ACTIVE}
        IN /\ active # {} <=> d.resources[r] # STATUS_AVAILABLE
           /\ active # {} => d.resources[r] \in onloan

C17_ReservationsStayPending ==
    [][/\ \A i \in DOMAIN reservations :
             i \in DOMAIN reservations' /\ reservations'[i] = reservations[i]
       /\ \A i \in DOMAIN reservations' \ DOMAIN reservations :
             reservations'[i].status = STATUS_PENDING
       /\ \A u \in UserIds :
             /\ PendingCount(reservations', u) >= PendingCount(reservations, u)
             /\ PendingCount(reservations, u) >= 10 =>
                   \A i \in DOMAIN reservations' \ DOMAIN reservations :
                       reservations'[i].patron # u
       /\ (/\ slots'["a"].pc = "done"
           /\ slots'["a"].op = "reserve_resource"
           /\ PendingCount(pre'.reservations, slots'["a"].actor) >= 10)
          => /\ slots'["a"].outcome \in {"rejected", "denied"}
             /\ reservations' = pre'.reservations
      ]_vars

\* A patron's 10th reservation was created PENDING by one request and the
\* patron's next reserve request has been rejected; the rows placed before,
\* the EXPIRED one included, are as they were.
C17_Witness ==
    /\ Answered
    /\ Done.op = "reserve_resource"
    /\ Done.outcome = "rejected"
    /\ Len(reservations) = 11
    /\ reservations[10].status = STATUS_EXPIRED
    /\ reservations[11] = [patron |-> Done.actor, resource |-> Done.pk,
                           status |-> STATUS_PENDING]
    /\ active_res_count(Done.actor) = 10

\* The PENDING reservations on a resource held by users other than one.
PendingHeldByOthers(table, r, user) ==
    {i \in DOMAIN table :
        /\ table[i].resource = r
        /\ table[i].status = STATUS_PENDING
        /\ table[i].patron # user}

\* C18: a PENDING reservation gives its holder no priority: the return of a
\* resource with a PENDING reservation makes it AVAILABLE and leaves the
\* Reservation table as it was, and a following checkout request for it by a
\* patron other than the reservation's holder succeeds.
C18_NoPriority ==
    /\ (/\ Admitted
        /\ Done.op \in ReturnOps
        /\ Done.outcome = "ok"
        /\ PendingHeldByOthers(pre.reservations,
                               pre.checkouts[Done.checkout_id].resource,
                               NoSuchUser) # {})
       => /\ resources[pre.checkouts[Done.checkout_id].resource] = STATUS_AVAILABLE
          /\ reservations = pre.reservations
    /\ (/\ Admitted
        /\ Done.op = "checkout_resource"
        /\ HadRole(Done.actor, ROLE_PATRON)
        /\ pre.resources[Done.pk] = STATUS_AVAILABLE
        /\ \E i \in CheckoutsOf(pre.checkouts, Done.pk) :
              pre.checkouts[i].status = STATUS_RETURNED
        /\ PendingHeldByOthers(pre.reservations, Done.pk, Done.actor) # {})
       => /\ Done.outcome = "ok"
          /\ resources[Done.pk] = STATUS_CHECKED_OUT
          /\ Cardinality(ActiveCheckouts(Done.pk)) = 1
          /\ reservations = pre.reservations

====
